---- MODULE Spec2Model ----
(***************************************************************************)
(* Model of move_oldfiles.py: a policy-driven sweeper that moves files     *)
(* older than a threshold from a source tree to a mirrored place under a   *)
(* target tree (move_old_files) and then deletes very old files from the   *)
(* target tree, pruning the directories left empty (delete_very_old_files).*)
(*                                                                         *)
(* A path is a sequence of names.  The filesystem fs is a function whose   *)
(* domain is the set of existing paths; fs[p] = <<>> for a directory and   *)
(* fs[p] = <<m>> for a regular file with modification time m (in hours).   *)
(* An optional value (a dictionary field that may be absent, a function    *)
(* result that may be None) is <<>> when absent/None and <<v>> otherwise.  *)
(***************************************************************************)
EXTENDS Integers, Sequences, FiniteSets

\* ------------------------------------------------------------- bounds
\* The clock starts at hour 2 and never advances past MaxNow.
MaxNow == 3
\* The configuration lists at most MaxPolicies policies.
MaxPolicies == 2
\* The initial filesystem holds at most MaxEntries entries below its roots.
MaxEntries == 4
\* The external process acts at most MaxExt times (SpecExt only).
MaxExt == 1

\* ------------------------------------------------------ the filesystem
Parent(p) == SubSeq(p, 1, Len(p) - 1)

Join(d, name) == Append(d, name)

Basename(p) == p[Len(p)]

Exists(f, p) == p \in DOMAIN f

IsDir(f, p) == p \in DOMAIN f /\ f[p] = <<>>

IsFile(f, p) == p \in DOMAIN f /\ f[p] # <<>>

IsPrefix(d, p) == Len(d) <= Len(p) /\ SubSeq(p, 1, Len(d)) = d

\* The entries directly inside directory d.
Children(f, d) == {p \in DOMAIN f : Len(p) = Len(d) + 1 /\ Parent(p) = d}

\* Every existing path below d, d excluded.
Below(f, d) == {p \in DOMAIN f : Len(p) > Len(d) /\ IsPrefix(d, p)}

Prefixes(p) == {SubSeq(p, 1, n) : n \in 0..Len(p)}

\* f with path p set to entry e / with path p removed.
Put(f, p, e) == [q \in DOMAIN f \cup {p} |-> IF q = p THEN e ELSE f[q]]

Del(f, p) == [q \in DOMAIN f \ {p} |-> f[q]]

\* Every enumeration of the finite set S: os.scandir lists a directory in
\* an order the operating system chooses.
Orders(S) ==
  {s \in [1..Cardinality(S) -> S] : \A i, j \in DOMAIN s : s[i] = s[j] => i = j}

\* os.path.relpath(root, top) joined to target: the mirrored path.
Mirror(top, target, p) == target \o SubSeq(p, Len(top) + 1, Len(p))

\* os.makedirs(p, exist_ok=True) raises when p or one of its ancestors
\* exists and is not a directory, else it creates what is missing.
MakedirsRaises(f, p) == \E q \in Prefixes(p) : IsFile(f, q)

Makedirs(f, p) ==
  [q \in DOMAIN f \cup Prefixes(p) |-> IF q \in DOMAIN f THEN f[q] ELSE <<>>]

\* The age taken for days: timedelta(days=age_hours).
get_age_threshold_timestamp_days(t, age_hours) == t - 24 * age_hours

\* get_age_threshold_timestamp: the cutoff, age_hours before the clock t.
get_age_threshold_timestamp(t, age_hours) == t - age_hours

\* dict.get(key, default) on an optional field.
Get(field, default) == IF field = <<>> THEN default ELSE field[1]

\* ------------------------------------------------------------- inputs
S == <<"s">>
T == <<"t">>
SA == <<"s", "a">>

\* Modification times of the files present at the start (the clock starts
\* at 2: a file is one hour old or brand new).
MTimes == {1, 2}

\* The places where the initial filesystem may hold an entry.
CandPaths ==
  UNION {{<<r>>, <<r, "a">>, <<r, "a", "a">>, <<r, "a", "b">>, <<r, "a", "a", "b">>}
         : r \in {"s", "t"}}

WellFormed(f) ==
  /\ IsDir(f, <<>>)
  /\ \A p \in DOMAIN f \ {<<>>} : IsDir(f, Parent(p))

\* The filesystems with at most n entries below the roots s and t.
FSUpTo(n) ==
  UNION {{f \in [D \cup {<<>>} -> {<<>>} \cup {<<m>> : m \in MTimes}] : WellFormed(f)}
         : D \in {E \in SUBSET CandPaths :
                    /\ Cardinality({p \in E : Len(p) > 1}) <= n
                    /\ \A p \in E : Len(p) > 1 => Parent(p) \in E}}

InitFS == FSUpTo(MaxEntries)

\* One entry of file_mover_config.
Policy(src, tgt, age, del) ==
  [source_path |-> src, target_path |-> tgt,
   age_threshold_hours |-> age, deletion_threshold_hours |-> del]

\* Source and target apart, the same, the target inside the source, the
\* source inside the target.
PathPairs == {<<S, T>>, <<S, S>>, <<S, SA>>, <<SA, S>>}

PolicySet ==
  {Policy(pp[1], pp[2], age, del) :
     pp \in PathPairs, age \in {<<>>, <<1>>}, del \in {<<>>, <<0>>, <<1>>}}
    \cup {Policy(<<>>, T, <<>>, <<0>>), Policy(S, <<>>, <<>>, <<>>)}

\* The policies of the longer lists.
FewPolicies ==
  {Policy(S, T, <<1>>, <<>>), Policy(S, T, <<>>, <<0>>),
   Policy(<<>>, T, <<>>, <<0>>)}

ListsOver(policies, lo, hi) == UNION {[1..n -> policies] : n \in lo..hi}

\* The configuration file named by the argument: missing, not JSON, JSON
\* that is not an object, or an object whose file_mover_config is a list.
NoFile == [kind |-> "missing", list |-> <<>>]

BadFiles == {[kind |-> k, list |-> <<>>] : k \in {"missing", "invalid", "not_object"}}

ObjectFiles(lists) == {[kind |-> "object", list |-> l] : l \in lists}

\* load_config: the list of an object, [] for a missing or unparsable file.
load_config(file) == IF file.kind = "object" THEN file.list ELSE <<>>

LoadRaises(file) == file.kind = "not_object"

\* -------------------------------------------------------------- state
VARIABLES
  pc,                       \* where the process is
  fs,                       \* the filesystem
  now,                      \* the clock, in hours
  has_arg,                  \* len(sys.argv) >= 2
  config_file,              \* the file sys.argv[1] names
  configs,                  \* the list load_config returned
  idx,                      \* position of conf in configs
  age_limit_timestamp,      \* move_old_files: the cutoff
  moved_count,              \* move_old_files: files moved
  deletion_limit_timestamp, \* delete_very_old_files: the cutoff
  deleted_count,            \* delete_very_old_files: files deleted
  stack,                    \* os.walk: what is still to visit
  root,                     \* os.walk: the directory being visited
  dirs,                     \* os.walk: its subdirectories, as listed
  files,                    \* os.walk: its files still to handle
  retval,                   \* what the last call returned (<<>> is None)
  out,                      \* the lines printed
  exit_status,              \* <<>> while running, then <<status>>
  fs0,                      \* history: fs when the current call began
  calls,                    \* history: the calls made, <<idx, function>>
  ext                       \* history: steps of the external process

vars ==
  <<pc, fs, now, has_arg, config_file, configs, idx, age_limit_timestamp,
    moved_count, deletion_limit_timestamp, deleted_count, stack, root, dirs,
    files, retval, out, exit_status, fs0, calls, ext>>

walk_vars == <<stack, root, dirs, files>>
move_vars == <<age_limit_timestamp, moved_count>>
delete_vars == <<deletion_limit_timestamp, deleted_count>>
main_vars == <<has_arg, config_file, configs, idx, exit_status>>

conf == configs[idx]

InitWith(arg, file_set, fs_set) ==
  /\ pc = "start"
  /\ fs \in fs_set
  /\ now = 2
  /\ has_arg = arg
  /\ config_file \in file_set
  /\ configs = <<>>
  /\ idx = 1
  /\ age_limit_timestamp = 0
  /\ moved_count = 0
  /\ deletion_limit_timestamp = 0
  /\ deleted_count = 0
  /\ stack = <<>>
  /\ root = <<>>
  /\ dirs = <<>>
  /\ files = <<>>
  /\ retval = <<>>
  /\ out = <<>>
  /\ exit_status = <<>>
  /\ fs0 = fs
  /\ calls = {}
  /\ ext = 0

\* A run without its argument; a run on a file that holds no list; a run
\* on at most one policy; a run on a longer list, on a smaller filesystem.
Init ==
  \/ InitWith(FALSE, {NoFile}, FSUpTo(1))
  \/ InitWith(TRUE, BadFiles, FSUpTo(1))
  \/ InitWith(TRUE, ObjectFiles(ListsOver(PolicySet, 0, 1)), InitFS)
  \/ InitWith(TRUE, ObjectFiles(ListsOver(FewPolicies, 2, MaxPolicies)),
              FSUpTo(MaxEntries - 1))

\* ------------------------------------------------------------- __main__
Log(line) == out' = Append(out, line)

\* An exception nobody catches ends the process with status 1.
Raise(what) ==
  /\ pc' = "exited"
  /\ exit_status' = <<1>>
  /\ Log(<<"Traceback", what>>)

\* len(sys.argv) < 2: usage, sys.exit(1).
Usage ==
  /\ pc = "start" /\ ~has_arg
  /\ pc' = "exited"
  /\ exit_status' = <<1>>
  /\ Log(<<"Usage">>)
  /\ UNCHANGED <<fs, now, has_arg, config_file, configs, idx, move_vars,
                 delete_vars, walk_vars, retval, fs0, calls, ext>>

\* configs = load_config(CONFIG_FILE); config.get raises on a non-object.
LoadConfig ==
  /\ pc = "start" /\ has_arg
  /\ IF LoadRaises(config_file)
     THEN Raise("AttributeError") /\ UNCHANGED configs
     ELSE /\ configs' = load_config(config_file)
          /\ pc' = "loaded"
          /\ UNCHANGED <<out, exit_status>>
  /\ UNCHANGED <<fs, now, has_arg, config_file, idx, move_vars, delete_vars,
                 walk_vars, retval, fs0, calls, ext>>

\* The else branch ending with sys.exit(1).
NoConfigsExit1 ==
  /\ pc = "loaded" /\ configs = <<>>
  /\ pc' = "exited"
  /\ exit_status' = <<1>>
  /\ Log(<<"No valid configurations">>)
  /\ UNCHANGED <<fs, now, has_arg, config_file, configs, idx, move_vars,
                 delete_vars, walk_vars, retval, fs0, calls, ext>>

\* if configs: ... else: "No valid configurations found. Exiting."
NoConfigs ==
  /\ pc = "loaded" /\ configs = <<>>
  /\ pc' = "exited"
  /\ exit_status' = <<0>>
  /\ Log(<<"No valid configurations">>)
  /\ UNCHANGED <<fs, now, has_arg, config_file, configs, idx, move_vars,
                 delete_vars, walk_vars, retval, fs0, calls, ext>>

StartLoop ==
  /\ pc = "loaded" /\ configs # <<>>
  /\ pc' = "loop"
  /\ Log(<<"Starting">>)
  /\ UNCHANGED <<fs, now, main_vars, move_vars, delete_vars, walk_vars,
                 retval, fs0, calls, ext>>

\* The loop is over: "Scheduled file cleanup finished.", status 0.
Finish ==
  /\ pc = "loop" /\ idx > Len(configs)
  /\ pc' = "exited"
  /\ exit_status' = <<0>>
  /\ Log(<<"Finished">>)
  /\ UNCHANGED <<fs, now, has_arg, config_file, configs, idx, move_vars,
                 delete_vars, walk_vars, retval, fs0, calls, ext>>

\* if not source_path or not target_path: continue
InvalidConf(c) == c.source_path = <<>> \/ c.target_path = <<>>

SkipConfig ==
  /\ pc = "loop" /\ idx <= Len(configs) /\ InvalidConf(conf)
  /\ idx' = idx + 1
  /\ Log(<<"Skipping configuration">>)
  /\ UNCHANGED <<pc, fs, now, has_arg, config_file, configs, exit_status,
                 move_vars, delete_vars, walk_vars, retval, fs0, calls, ext>>

\* move_old_files(source_path, target_path, age_threshold_hours)
CallMove ==
  /\ pc = "loop" /\ idx <= Len(configs) /\ ~InvalidConf(conf)
  /\ pc' = "move_start"
  /\ calls' = calls \cup {<<idx, "move_old_files">>}
  /\ fs0' = fs
  /\ Log(<<"MOVE PROCESS", conf.source_path>>)
  /\ UNCHANGED <<fs, now, main_vars, move_vars, delete_vars, walk_vars,
                 retval, ext>>

\* if deletion_threshold_hours is not None: delete_very_old_files(...)
CallDelete ==
  /\ pc = "move_returned" /\ conf.deletion_threshold_hours # <<>>
  /\ pc' = "delete_start"
  /\ calls' = calls \cup {<<idx, "delete_very_old_files">>}
  /\ fs0' = fs
  /\ Log(<<"DELETION PROCESS", conf.target_path>>)
  /\ UNCHANGED <<fs, now, main_vars, move_vars, delete_vars, walk_vars,
                 retval, ext>>

SkipDeletion ==
  /\ pc = "move_returned" /\ conf.deletion_threshold_hours = <<>>
  /\ pc' = "loop"
  /\ idx' = idx + 1
  /\ Log(<<"Skipping deletion", conf.target_path>>)
  /\ UNCHANGED <<fs, now, has_arg, config_file, configs, exit_status,
                 move_vars, delete_vars, walk_vars, retval, fs0, calls, ext>>

DeleteReturned ==
  /\ pc = "delete_returned"
  /\ pc' = "loop"
  /\ idx' = idx + 1
  /\ UNCHANGED <<fs, now, has_arg, config_file, configs, exit_status,
                 move_vars, delete_vars, walk_vars, retval, out, fs0, calls,
                 ext>>

\* shutil.move(src, dst) of a regular file.  A destination that is a
\* directory receives the file under its own name, unless that name is
\* taken there (shutil.Error).  os.rename replaces an existing file, keeps
\* the modification time, and fails when src or dst's directory is gone.
RealDst(f, src, dst) == IF IsDir(f, dst) THEN Join(dst, Basename(src)) ELSE dst

MoveOutcome(f, src, dst) ==
  IF IsDir(f, dst) /\ Exists(f, Join(dst, Basename(src))) THEN "error"
  ELSE IF ~Exists(f, src) THEN "notfound"
  ELSE IF ~Exists(f, Parent(RealDst(f, src, dst))) THEN "notfound"
  ELSE IF ~IsDir(f, Parent(RealDst(f, src, dst))) THEN "error"
  ELSE "ok"

\* A move that copies the content and not the times (shutil.copy for copy2).
ShutilMoveFreshTime(f, src, dst) ==
  IF MoveOutcome(f, src, dst) # "ok" \/ RealDst(f, src, dst) = src THEN f
  ELSE Put(Del(f, src), RealDst(f, src, dst), <<now>>)

ShutilMove(f, src, dst) ==
  IF MoveOutcome(f, src, dst) # "ok" \/ RealDst(f, src, dst) = src THEN f
  ELSE Put(Del(f, src), RealDst(f, src, dst), f[src])

\* The clock as a call reads it: time passes, and never runs backwards.
ClockReads == {t \in now..(now + 1) : t <= MaxNow}

\* os.scandir(d) as os.walk splits it: the names of the subdirectories and
\* of the other entries, each in some order.
DirNames(f, d) == {Basename(p) : p \in {q \in Children(f, d) : IsDir(f, q)}}

FileNames(f, d) == {Basename(p) : p \in {q \in Children(f, d) : IsFile(f, q)}}

\* [join(d, name) for name in names]
JoinAll(d, names) == [i \in 1..Len(names) |-> Join(d, names[i])]

\* ------------------------------------------------------ move_old_files
\* The source is no directory: warn and return.
Move_NoSource ==
  /\ pc = "move_start" /\ ~IsDir(fs, conf.source_path)
  /\ pc' = "move_returned"
  /\ retval' = <<>>
  /\ Log(<<"Warning: Source path", conf.source_path>>)
  /\ UNCHANGED <<fs, now, main_vars, move_vars, delete_vars, walk_vars, fs0,
                 calls, ext>>

\* age_limit_timestamp, moved_count = 0, and os.walk(source_path) begins.
Move_Start ==
  /\ pc = "move_start" /\ IsDir(fs, conf.source_path)
  /\ \E t \in ClockReads :
       /\ now' = t
       /\ age_limit_timestamp' =
            get_age_threshold_timestamp(t, Get(conf.age_threshold_hours, 0))
  /\ moved_count' = 0
  /\ stack' = <<conf.source_path>>
  /\ pc' = "move_walk"
  /\ UNCHANGED <<fs, main_vars, delete_vars, root, dirs, files, retval, out,
                 fs0, calls, ext>>

\* os.walk, top-down: the next directory is listed and handed to the loop
\* body; one that cannot be listed is passed over.
Move_Walk ==
  /\ pc = "move_walk" /\ stack # <<>>
  /\ stack' = Tail(stack)
  /\ IF IsDir(fs, Head(stack))
     THEN /\ root' = Head(stack)
          /\ dirs' \in Orders(DirNames(fs, Head(stack)))
          /\ files' \in Orders(FileNames(fs, Head(stack)))
          /\ pc' = "move_makedirs"
     ELSE UNCHANGED <<pc, root, dirs, files>>
  /\ UNCHANGED <<fs, now, main_vars, move_vars, delete_vars, retval, out, fs0,
                 calls, ext>>

destination_dir == Mirror(conf.source_path, conf.target_path, root)

\* os.makedirs(destination_dir, exist_ok=True), outside any try.
Move_Makedirs ==
  /\ pc = "move_makedirs"
  /\ IF MakedirsRaises(fs, destination_dir)
     THEN Raise("FileExistsError") /\ UNCHANGED fs
     ELSE /\ fs' = Makedirs(fs, destination_dir)
          /\ pc' = "move_files"
          /\ UNCHANGED <<out, exit_status>>
  /\ UNCHANGED <<now, has_arg, config_file, configs, idx, move_vars,
                 delete_vars, walk_vars, retval, fs0, calls, ext>>

source_file_path == Join(root, Head(files))
target_file_path == Join(destination_dir, Head(files))

\* The comparison with <= for <.
IsOldOrEqual(mtime, limit) == mtime <= limit

\* file_mtime < age_limit_timestamp
IsOld(mtime, limit) == mtime < limit

\* os.stat(source_file_path).st_mtime and the comparison with the cutoff.
Move_Stat ==
  /\ pc = "move_files" /\ files # <<>>
  /\ IF ~Exists(fs, source_file_path)
     THEN /\ Log(<<"Skipping: File not found", source_file_path>>)
          /\ files' = Tail(files)
          /\ UNCHANGED pc
     ELSE IF IsOld(fs[source_file_path][1], age_limit_timestamp)
     THEN pc' = "move_file" /\ UNCHANGED <<files, out>>
     ELSE files' = Tail(files) /\ UNCHANGED <<pc, out>>
  /\ UNCHANGED <<fs, now, main_vars, move_vars, delete_vars, stack, root, dirs,
                 retval, fs0, calls, ext>>

\* The count taken before the move, whatever its outcome.
Move_FileCountsAttempts ==
  /\ pc = "move_file"
  /\ LET outcome == MoveOutcome(fs, source_file_path, target_file_path) IN
       /\ fs' = ShutilMove(fs, source_file_path, target_file_path)
       /\ moved_count' = moved_count + 1
       /\ Log(CASE outcome = "ok" -> <<"MOVED", source_file_path, target_file_path>>
               [] outcome = "notfound" -> <<"Skipping: File not found", source_file_path>>
               [] OTHER -> <<"Error moving", source_file_path>>)
  /\ files' = Tail(files)
  /\ pc' = "move_files"
  /\ UNCHANGED <<now, main_vars, age_limit_timestamp, delete_vars, stack, root,
                 dirs, retval, fs0, calls, ext>>

\* shutil.move(source_file_path, target_file_path); moved_count += 1
Move_File ==
  /\ pc = "move_file"
  /\ LET outcome == MoveOutcome(fs, source_file_path, target_file_path) IN
       /\ fs' = ShutilMove(fs, source_file_path, target_file_path)
       /\ moved_count' = IF outcome = "ok" THEN moved_count + 1 ELSE moved_count
       /\ Log(CASE outcome = "ok" -> <<"MOVED", source_file_path, target_file_path>>
               [] outcome = "notfound" -> <<"Skipping: File not found", source_file_path>>
               [] OTHER -> <<"Error moving", source_file_path>>)
  /\ files' = Tail(files)
  /\ pc' = "move_files"
  /\ UNCHANGED <<now, main_vars, age_limit_timestamp, delete_vars, stack, root,
                 dirs, retval, fs0, calls, ext>>

\* The loop body is over: os.walk goes on with the subdirectories listed.
Move_NextDir ==
  /\ pc = "move_files" /\ files = <<>>
  /\ stack' = JoinAll(root, dirs) \o stack
  /\ pc' = "move_walk"
  /\ UNCHANGED <<fs, now, main_vars, move_vars, delete_vars, root, dirs, files,
                 retval, out, fs0, calls, ext>>

\* "Completed moving files. Total files moved: ..."; no return statement.
Move_Done ==
  /\ pc = "move_walk" /\ stack = <<>>
  /\ Log(<<"Total files moved", moved_count>>)
  /\ retval' = <<>>
  /\ pc' = "move_returned"
  /\ UNCHANGED <<fs, now, main_vars, move_vars, delete_vars, walk_vars, fs0,
                 calls, ext>>

\* ----------------------------------------------- delete_very_old_files
Delete_NoTarget ==
  /\ pc = "delete_start" /\ ~IsDir(fs, conf.target_path)
  /\ pc' = "delete_returned"
  /\ retval' = <<>>
  /\ Log(<<"Warning: Target path", conf.target_path>>)
  /\ UNCHANGED <<fs, now, main_vars, move_vars, delete_vars, walk_vars, fs0,
                 calls, ext>>

Delete_Start ==
  /\ pc = "delete_start" /\ IsDir(fs, conf.target_path)
  /\ \E t \in ClockReads :
       /\ now' = t
       /\ deletion_limit_timestamp' =
            get_age_threshold_timestamp(t, conf.deletion_threshold_hours[1])
  /\ deleted_count' = 0
  /\ stack' = <<<<"scan", conf.target_path>>>>
  /\ pc' = "delete_walk"
  /\ UNCHANGED <<fs, main_vars, move_vars, root, dirs, files, retval, out, fs0,
                 calls, ext>>

\* The default, top-down order: a directory before its subdirectories.
WalkFramesTopDown(d, ds, fl) ==
  <<<<"yield", d, fl>>>> \o [i \in 1..Len(ds) |-> <<"scan", Join(d, ds[i])>>]

\* os.walk(topdown=False): a directory is listed, then its subdirectories
\* are walked, and only then is it handed to the loop body.
WalkFrames(d, ds, fl) ==
  [i \in 1..Len(ds) |-> <<"scan", Join(d, ds[i])>>] \o <<<<"yield", d, fl>>>>

Delete_Walk ==
  /\ pc = "delete_walk" /\ stack # <<>>
  /\ LET frame == Head(stack) IN
       IF frame[1] = "yield"
       THEN /\ root' = frame[2]
            /\ files' = frame[3]
            /\ stack' = Tail(stack)
            /\ pc' = "delete_files"
            /\ UNCHANGED dirs
       ELSE IF IsDir(fs, frame[2])
       THEN /\ \E ds \in Orders(DirNames(fs, frame[2])),
                  fl \in Orders(FileNames(fs, frame[2])) :
                 stack' = WalkFrames(frame[2], ds, fl) \o Tail(stack)
            /\ UNCHANGED <<pc, root, dirs, files>>
       ELSE /\ stack' = Tail(stack)
            /\ UNCHANGED <<pc, root, dirs, files>>
  /\ UNCHANGED <<fs, now, main_vars, move_vars, delete_vars, retval, out, fs0,
                 calls, ext>>

file_path == Join(root, Head(files))

\* os.stat(file_path).st_mtime and the comparison; a missing file: pass.
Delete_Stat ==
  /\ pc = "delete_files" /\ files # <<>>
  /\ IF ~Exists(fs, file_path)
     THEN files' = Tail(files) /\ UNCHANGED pc
     ELSE IF IsOld(fs[file_path][1], deletion_limit_timestamp)
     THEN pc' = "delete_file" /\ UNCHANGED files
     ELSE files' = Tail(files) /\ UNCHANGED pc
  /\ UNCHANGED <<fs, now, main_vars, move_vars, delete_vars, stack, root, dirs,
                 retval, out, fs0, calls, ext>>

\* os.remove(file_path); deleted_count += 1; a missing file: pass.
Delete_File ==
  /\ pc = "delete_file"
  /\ IF Exists(fs, file_path)
     THEN /\ fs' = Del(fs, file_path)
          /\ deleted_count' = deleted_count + 1
          /\ Log(<<"DELETED", file_path>>)
     ELSE UNCHANGED <<fs, deleted_count, out>>
  /\ files' = Tail(files)
  /\ pc' = "delete_files"
  /\ UNCHANGED <<now, main_vars, move_vars, deletion_limit_timestamp, stack,
                 root, dirs, retval, fs0, calls, ext>>

\* The emptiness check alone, the target itself not excepted.
ShouldRemoveAnyDir(f, d, target) == Exists(f, d) /\ Children(f, d) = {}

\* if not os.listdir(root) and root != target_path
ShouldRemoveDir(f, d, target) ==
  Exists(f, d) /\ Children(f, d) = {} /\ d # target

Delete_Listdir ==
  /\ pc = "delete_files" /\ files = <<>>
  /\ pc' = IF ShouldRemoveDir(fs, root, conf.target_path)
           THEN "delete_rmdir" ELSE "delete_walk"
  /\ UNCHANGED <<fs, now, main_vars, move_vars, delete_vars, walk_vars, retval,
                 out, fs0, calls, ext>>

\* os.rmdir(root): OSError (not empty, already gone) is passed over.
Delete_Rmdir ==
  /\ pc = "delete_rmdir"
  /\ IF Exists(fs, root) /\ Children(fs, root) = {}
     THEN fs' = Del(fs, root) /\ Log(<<"REMOVED EMPTY DIRECTORY", root>>)
     ELSE UNCHANGED <<fs, out>>
  /\ pc' = "delete_walk"
  /\ UNCHANGED <<now, main_vars, move_vars, delete_vars, walk_vars, retval,
                 fs0, calls, ext>>

Delete_Done ==
  /\ pc = "delete_walk" /\ stack = <<>>
  /\ Log(<<"Total files deleted", deleted_count>>)
  /\ retval' = <<>>
  /\ pc' = "delete_returned"
  /\ UNCHANGED <<fs, now, main_vars, move_vars, delete_vars, walk_vars, fs0,
                 calls, ext>>

\* ------------------------------------------------ the external process
\* Another process removes a file, or creates one, at any moment of a run.
ExtPaths == {Join(d, n) : d \in {S, T, SA, <<"t", "a">>}, n \in {"a", "b"}}

ExtRunning == pc \notin {"start", "exited"} /\ ext < MaxExt

ExtRemove ==
  /\ ExtRunning
  /\ \E p \in DOMAIN fs : IsFile(fs, p) /\ fs' = Del(fs, p)
  /\ ext' = ext + 1
  /\ UNCHANGED <<pc, now, main_vars, move_vars, delete_vars, walk_vars, retval,
                 out, fs0, calls>>

ExtCreate ==
  /\ ExtRunning
  /\ \E p \in ExtPaths :
       /\ ~Exists(fs, p) /\ IsDir(fs, Parent(p))
       /\ fs' = Put(fs, p, <<now>>)
  /\ ext' = ext + 1
  /\ UNCHANGED <<pc, now, main_vars, move_vars, delete_vars, walk_vars, retval,
                 out, fs0, calls>>

\* ------------------------------------------------------ specifications
Main ==
  \/ Usage \/ LoadConfig \/ NoConfigs \/ StartLoop \/ Finish \/ SkipConfig
  \/ CallMove \/ CallDelete \/ SkipDeletion \/ DeleteReturned

MoveOldFiles ==
  \/ Move_NoSource \/ Move_Start \/ Move_Walk \/ Move_Makedirs \/ Move_Stat
  \/ Move_File \/ Move_NextDir \/ Move_Done

DeleteVeryOldFiles ==
  \/ Delete_NoTarget \/ Delete_Start \/ Delete_Walk \/ Delete_Stat
  \/ Delete_File \/ Delete_Listdir \/ Delete_Rmdir \/ Delete_Done

Next == Main \/ MoveOldFiles \/ DeleteVeryOldFiles

Spec == Init /\ [][Next]_vars

\* A run beside an external process: at most one policy, from s to t, and
\* nothing in t at the start.
ExtFS ==
  {f \in InitFS : /\ \A p \in DOMAIN f : Len(p) > 1 => p[1] = "s"
                  /\ ~IsFile(f, T)}

ExtPolicies ==
  {Policy(S, T, <<>>, <<0>>), Policy(S, T, <<1>>, <<>>),
   Policy(<<>>, T, <<>>, <<0>>)}

InitExt ==
  \/ InitWith(FALSE, {NoFile}, FSUpTo(0))
  \/ InitWith(TRUE, ObjectFiles(ListsOver(ExtPolicies, 0, 1)), ExtFS)

NextExt == Next \/ ExtRemove \/ ExtCreate

SpecExt == InitExt /\ [][NextExt]_vars

\* ------------------------------------------------- reading the history
source_path == conf.source_path
target_path == conf.target_path

FilesBelow(f, d) == {p \in Below(f, d) : IsFile(f, p)}

DirsBelow(f, d) == {p \in Below(f, d) : IsDir(f, p)}

\* The last line printed with this tag (0: none).
LastLine(tag) ==
  LET I == {i \in 1..Len(out) : out[i][1] = tag}
  IN  IF I = {} THEN 0 ELSE CHOOSE i \in I : \A j \in I : j <= i

\* The lines of the current call of move_old_files / delete_very_old_files.
MoveLines == (LastLine("MOVE PROCESS") + 1)..Len(out)

DeleteLines == (LastLine("DELETION PROCESS") + 1)..Len(out)

Moved == {i \in MoveLines : out[i][1] = "MOVED"}

MoveErrors ==
  \E i \in MoveLines : out[i][1] \in {"Skipping: File not found", "Error moving"}

Raised == \E i \in 1..Len(out) : out[i][1] = "Traceback"

\* Neither tree holds the other's root.
Apart(a, b) == ~IsPrefix(a, b) /\ ~IsPrefix(b, a)

DeletePcs ==
  {"delete_walk", "delete_files", "delete_file", "delete_rmdir", "delete_returned"}

\* ------------------------------------------------------------- claims
\* The cutoffs the claims speak of: now - h, now being the clock as the call
\* read it (the clock moves only when a call reads it).
MoveCutoff == now - Get(conf.age_threshold_hours, 0)

DeleteCutoff == now - conf.deletion_threshold_hours[1]

\* The file that was at source path p is now at path m, as it was.
MovedTo(p, m) == IsFile(fs, m) /\ fs[m] = fs0[p] /\ ~Exists(fs, p)

\* The file at p is where it was, as it was, and no move of it was made.
Unmoved(p) ==
  /\ IsFile(fs, p) /\ fs[p] = fs0[p]
  /\ \A i \in Moved : out[i][2] # p

MoveReturnedCleanly ==
  pc = "move_returned" /\ IsDir(fs0, source_path) /\ ~MoveErrors

C1_IntoDirectory ==
  /\ MoveReturnedCleanly /\ Apart(source_path, target_path)
  /\ \E p \in FilesBelow(fs0, source_path) :
       /\ fs0[p][1] < MoveCutoff
       /\ IsDir(fs0, Mirror(source_path, target_path, p))
       /\ MovedTo(p, Join(Mirror(source_path, target_path, p), Basename(p)))

DeleteHasReturned == pc = "delete_returned" /\ IsDir(fs0, target_path)

\* C2: when delete_very_old_files has returned from an existing target
\* directory, every file of the tree whose modification time was below the
\* cutoff is gone and every other file is still at its path, unchanged.
C2_Reap ==
  DeleteHasReturned =>
    \A p \in FilesBelow(fs0, target_path) :
      IF fs0[p][1] < DeleteCutoff
      THEN ~Exists(fs, p)
      ELSE IsFile(fs, p) /\ fs[p] = fs0[p]

C2_Witness ==
  /\ DeleteHasReturned
  /\ \E p, q \in FilesBelow(fs0, target_path) :
       /\ Len(p) = Len(target_path) + 3
       /\ fs0[p][1] < DeleteCutoff /\ ~Exists(fs, p)
       /\ fs0[q][1] >= DeleteCutoff /\ IsFile(fs, q)

\* The subtree of d held nothing but expired files (and directories).
OnlyExpired(d) ==
  \A q \in FilesBelow(fs0, d) : fs0[q][1] < DeleteCutoff

\* C3: after one pass of delete_very_old_files every directory below the
\* target whose subtree held nothing but expired files is gone, a directory
\* that holds a surviving file is still there, and a directory is removed
\* before its parent is.
C3_Cascade ==
  DeleteHasReturned =>
    /\ \A d \in DirsBelow(fs0, target_path) :
         IF OnlyExpired(d) THEN ~Exists(fs, d) ELSE IsDir(fs, d)
    /\ \A i, j \in DeleteLines :
         /\ out[i][1] = "REMOVED EMPTY DIRECTORY"
         /\ out[j][1] = "REMOVED EMPTY DIRECTORY"
         /\ out[j][2] = Parent(out[i][2])
         => i < j

C3_Witness ==
  /\ DeleteHasReturned
  /\ \E d \in DirsBelow(fs0, target_path) :
       /\ Len(d) = Len(target_path) + 2
       /\ FilesBelow(fs0, d) # {}
       /\ ~Exists(fs, d) /\ ~Exists(fs, Parent(d))

\* C4: while delete_very_old_files runs on a target directory, and after
\* it, the target directory itself exists, also when it is left empty.
C4_RootSurvives ==
  pc \in DeletePcs /\ IsDir(fs0, target_path) => IsDir(fs, target_path)

C4_Witness ==
  /\ DeleteHasReturned
  /\ Children(fs0, target_path) # {}
  /\ Children(fs, target_path) = {}

\* Policy i is over: the loop has passed it, or the process has ended.
PolicyOver(i) == pc = "exited" \/ (pc = "loop" /\ idx > i)

\* C5: for every policy with both paths, delete_very_old_files is called
\* if and only if deletion_threshold_hours is present (0 included), and a
\* policy without it removes nothing from the target tree.
C5_ReapIffPresent ==
  /\ \A i \in 1..Len(configs) :
       PolicyOver(i) /\ ~InvalidConf(configs[i])
         => (<<i, "delete_very_old_files">> \in calls
               <=> configs[i].deletion_threshold_hours # <<>>)
  /\ pc = "move_returned" /\ conf.deletion_threshold_hours = <<>>
       => \A p \in Below(fs0, target_path) \cup {target_path} :
            p \in DOMAIN fs0 /\ ~Exists(fs, p) => \E i \in Moved : out[i][2] = p

NoValidPolicy ==
  \A i \in 1..Len(load_config(config_file)) :
    InvalidConf(load_config(config_file)[i])

\* C6, as stated: the exit status is non-zero exactly when the argument is
\* missing or the configuration yields no valid policy.
C6_ExitStatusByPolicies ==
  pc = "exited" => (exit_status # <<0>> <=> (~has_arg \/ NoValidPolicy))

\* C6, amended: the exit status is 1 exactly when the argument is missing
\* or an exception nobody catches ended the run, and 0 otherwise: a missing
\* or unparsable file, an empty list and a list of policies that all lack
\* a path end with status 0.
C6_ExitStatus ==
  pc = "exited" =>
    /\ exit_status \in {<<0>>, <<1>>}
    /\ exit_status = <<1>> <=> (~has_arg \/ Raised)
    /\ has_arg /\ ~LoadRaises(config_file) /\ NoValidPolicy => exit_status = <<0>>

C6_Witness ==
  /\ pc = "exited" /\ has_arg /\ exit_status = <<0>>
  /\ config_file.kind = "missing"

Deleted == {i \in DeleteLines : out[i][1] = "DELETED"}

Gone(d) == {p \in FilesBelow(fs0, d) : ~Exists(fs, p)}

\* C7, as stated: each function returns the number of files it moved or
\* deleted, and 0 when its root is no directory.
C7_ReturnsCount ==
  /\ pc = "move_returned"
       => retval = <<IF IsDir(fs0, source_path) THEN moved_count ELSE 0>>
  /\ pc = "delete_returned"
       => retval = <<IF IsDir(fs0, target_path) THEN deleted_count ELSE 0>>

\* C7, amended: each function returns None; it prints, as its last line,
\* the number of files it moved or deleted in that call (for trees that do
\* not hold one another: the number of files gone from the source; the
\* number of files gone from the target), and when its root is no directory
\* it prints a warning only and changes nothing.
C7_PrintsCount ==
  /\ pc = "move_returned" =>
       /\ retval = <<>>
       /\ IF IsDir(fs0, source_path)
          THEN /\ out[Len(out)] = <<"Total files moved", Cardinality(Moved)>>
               /\ Apart(source_path, target_path)
                    => Cardinality(Moved) = Cardinality(Gone(source_path))
          ELSE out[Len(out)][1] = "Warning: Source path" /\ fs = fs0
  /\ pc = "delete_returned" =>
       /\ retval = <<>>
       /\ IF IsDir(fs0, target_path)
          THEN /\ out[Len(out)] = <<"Total files deleted", Cardinality(Deleted)>>
               /\ Cardinality(Deleted) = Cardinality(Gone(target_path))
          ELSE out[Len(out)][1] = "Warning: Target path" /\ fs = fs0

C7_Witness ==
  /\ pc = "delete_returned" /\ retval = <<>>
  /\ Cardinality(Moved) = 2 /\ Cardinality(Deleted) = 2

\* C8: a failure on one file or directory never aborts the run: every
\* policy with both paths is executed, whatever happened before it.
C8_RunNotAborted ==
  pc = "exited" /\ has_arg /\ ~LoadRaises(config_file) =>
    \A i \in 1..Len(configs) :
      ~InvalidConf(configs[i]) => <<i, "move_old_files">> \in calls

\* C9: beside an external process that removes and creates files, each
\* phase runs to completion without raising.
C9_NoRaiseBesideExt == \A i \in 1..Len(out) : out[i][1] # "Traceback"

\* C10: when a policy whose deletion_threshold_hours is present and at most
\* its move threshold is over, no file it moved exists any more, at its
\* source or in the target.
C10_MovedThenDeleted ==
  /\ pc = "delete_returned"
  /\ conf.deletion_threshold_hours[1] <= Get(conf.age_threshold_hours, 0)
  => \A i \in Moved :
       /\ ~IsFile(fs, out[i][2])
       /\ ~IsFile(fs, out[i][3])
       /\ ~IsFile(fs, Join(out[i][3], Basename(out[i][2])))

C10_Witness ==
  /\ pc = "delete_returned"
  /\ conf.deletion_threshold_hours[1] <= Get(conf.age_threshold_hours, 0)
  /\ deletion_limit_timestamp > age_limit_timestamp
  /\ Apart(source_path, target_path)
  /\ Cardinality(Moved) = 2

\* ----------------------------------------------- auxiliary properties
\* delete_very_old_files is called only for a policy with both paths and
\* deletion_threshold_hours, and the branch taken when move_old_files has
\* returned is decided by that field alone.
ReapOnlyIfPresent ==
  \A c \in calls :
    c[2] = "delete_very_old_files"
      => /\ configs[c[1]].deletion_threshold_hours # <<>>
         /\ ~InvalidConf(configs[c[1]])

DecidedByField ==
  [][pc = "move_returned" /\ pc' # pc =>
       (pc' = "delete_start" <=> conf.deletion_threshold_hours # <<>>)]_vars

\* Nothing but load_config and os.makedirs raises, and no step removes a
\* directory that holds an entry (also beside the external process).
OnlyMakedirsRaises ==
  [][~Raised /\ Raised' => pc \in {"start", "move_makedirs"}]_vars

RmdirOnlyEmpty ==
  [][(\A d \in DOMAIN fs :
        IsDir(fs, d) /\ ~Exists(fs', d) => (Children(fs, d) = {}))]_vars

====
